---- MODULE Spec2Model ----
(***************************************************************************)
(* Model of gimme_aws_creds/main.py (class GimmeAWSCreds).                 *)
(*                                                                         *)
(* GimmeAWSCreds.run is a single-threaded sequence of blocking calls; each *)
(* action below is the stretch of run() up to and including one blocking   *)
(* call (configuration read, Okta authentication, catalog fetch, one line  *)
(* of operator input, SAML fetch, STS exchange, delivery).                 *)
(*                                                                         *)
(* Configuration values are inputs.  Each one is drawn at the statement of *)
(* run() that first reads it and is kept in conf, so that a later read of  *)
(* the same key sees the same value.                                       *)
(*                                                                         *)
(* Strings that the code takes apart are sequences: an ARN is a sequence   *)
(* of segments, a line of operator input is a sequence of characters.      *)
(***************************************************************************)
EXTENDS Integers, Sequences, FiniteSets, TLC

VARIABLES
    pc,           \* position of run()
    exitStatus,   \* process exit status, Running while run() has not ended
    conf,         \* conf_dict / config attributes read so far
    calls,        \* calls made on the Okta client, the Okta APIs and the server
    final_result, \* raw application records of _get_aws_account_info
    aws_results,  \* the catalog handed to the resolver
    aws_app,      \* run(): aws_app
    aws_role,     \* run(): aws_role
    idp_arn,      \* self.idp_arn
    role_arn,     \* self.role_arn
    stdin,        \* lines the current _get_user_int_selection call has read
    prompted,     \* the selections ("app", "role") input() was called for
    stsCalls,     \* requests sent to assume_role_with_saml
    aws_creds,    \* run(): aws_creds
    store,        \* contents of the credential file AWS_CONFIG
    written,      \* the calls of _write_aws_creds so far: arguments and outcome
    stderr,       \* lines run() printed to sys.stderr
    stdout        \* diagnostic messages printed to standard output

vars == <<pc, exitStatus, conf, calls, final_result, aws_results, aws_app,
          aws_role, idp_arn, role_arn, stdin, prompted, stsCalls, aws_creds,
          store, written, stderr, stdout>>

(***************************************************************************)
(* Bounds of the model.                                                    *)
(***************************************************************************)
MaxPages == 2
MaxApps == 2
MaxWrites == 2

(***************************************************************************)
(* Values.                                                                 *)
(***************************************************************************)
Running == -1
None == [none |-> TRUE]
NoArn == <<>>
Absent == "<absent>"
Raised == "<raised>"
max_retries == 5
AWS_APP_NAME == "amazon_aws"
DEFAULT_SECTION == "DEFAULT"

Unread == "<unread>"
ConfKeys == {"configure", "okta_org_url", "gimme_creds_server", "api_key",
             "client_id", "okta_auth_server", "aws_appname", "aws_rolename",
             "write_aws_creds", "cred_profile"}

\* not x, for a configuration value: a missing key and the empty string
Falsy(v) == v \in {Absent, ""}

\* conf_dict[key]: a KeyError when the key is absent
KeyError(v) == v = Absent

OrgUrls == {"", "https://org.okta.com"}
Servers == {"", "internal", "https://creds.example.com"}
ApiKeys == {Absent, "apikey"}
ClientIds == {Absent, "", "cid"}
AuthServers == {"", "authsrv"}
AppNames == {"", "Prod", "Ghost"}
RoleNames == {Absent, "", "Admin", "Ghost"}
WriteFlags == {"True", "False"}
CredProfiles == {"DEFAULT", "Role", "role", "work"}

\* str.lower() on the configured cred_profile values
Lower(s) ==
    CASE s = "DEFAULT" -> "default"
      [] s = "Default" -> "default"
      [] s = "Role" -> "role"
      [] s = "ROLE" -> "role"
      [] OTHER -> s

(***************************************************************************)
(* Sequences.                                                              *)
(***************************************************************************)
SeqsUpTo(S, n) == UNION {[1..k -> S] : k \in 0..n}

RECURSIVE Concat(_)
Concat(ss) == IF ss = <<>> THEN <<>> ELSE Head(ss) \o Concat(Tail(ss))

Range(s) == {s[i] : i \in 1..Len(s)}
Last(s) == s[Len(s)]

\* the smallest index of s whose element is in found, 0 when there is none
FirstIndex(s, found) ==
    IF \E i \in 1..Len(s) : s[i] \in found
    THEN CHOOSE i \in 1..Len(s) :
             s[i] \in found /\ \A j \in 1..(i-1) : s[j] \notin found
    ELSE 0

(***************************************************************************)
(* _get_aws_account_info: the catalog builder.                             *)
(***************************************************************************)
SamlProvider == ":saml-provider"
RolePath == ":role/"

GoodArn == <<"arn:aws:iam::111", SamlProvider, "/Okta">>
BadArn == <<"arn:aws:iam::222", ":oidc-provider", "/Okta">>

\* re.sub(':saml-provider.*', ':role/' + role, arn): the text from the first
\* ":saml-provider" to the end is replaced; without a match arn is returned
RoleArnSub(arn, role) ==
    LET i == FirstIndex(arn, {SamlProvider})
    IN IF i = 0 THEN arn ELSE SubSeq(arn, 1, i-1) \o <<RolePath, role>>

\* application records as the Okta apps API returns them
RawApp(id, name, label, arn, roles) ==
    [id |-> id, name |-> name, label |-> label, identityProviderArn |-> arn,
     samlRoles |-> roles, appLink |-> <<"https://org.okta.com/home", id>>]

RawPool ==
    { RawApp("0oa1", AWS_APP_NAME, "Prod", GoodArn, <<"Admin", "ReadOnly">>),
      RawApp("0oa2", AWS_APP_NAME, "Dev", BadArn, <<"Admin">>),
      RawApp("0oa3", AWS_APP_NAME, "Sandbox", GoodArn, <<>>),
      RawApp("0oa4", "salesforce", "CRM", NoArn, <<>>) }

\* the pages of the apps API: at least one page, MaxApps records in all
PagePool == SeqsUpTo(RawPool, MaxApps)
PageChains ==
    {ps \in SeqsUpTo(PagePool, MaxPages) :
        Len(ps) >= 1 /\ Len(Concat(ps)) <= MaxApps}

RoleInfo(app, role) ==
    [name |-> role, arn |-> RoleArnSub(app.identityProviderArn, role)]

NewAppEntry(app) ==
    [id |-> app.id,
     name |-> app.label,
     identityProviderArn |-> app.identityProviderArn,
     roles |-> [i \in 1..Len(app.samlRoles) |-> RoleInfo(app, app.samlRoles[i])],
     appLink |-> app.appLink]

\* for app in final_result: if app['name'] == 'amazon_aws': app_list.append(...)
RECURSIVE BuildAppListDropEmpty(_)
BuildAppListDropEmpty(raw) ==
    IF raw = <<>> THEN <<>>
    ELSE IF Head(raw).name = AWS_APP_NAME /\ Head(raw).samlRoles # <<>>
         THEN <<NewAppEntry(Head(raw))>> \o BuildAppListDropEmpty(Tail(raw))
         ELSE BuildAppListDropEmpty(Tail(raw))

RECURSIVE BuildAppList(_)
BuildAppList(raw) ==
    IF raw = <<>> THEN <<>>
    ELSE IF Head(raw).name = AWS_APP_NAME
         THEN <<NewAppEntry(Head(raw))>> \o BuildAppList(Tail(raw))
         ELSE BuildAppList(Tail(raw))

\* what the gimme-creds server may answer: catalog entries as above, and an
\* entry whose roles list holds an empty role object
EmptyRole == [name |-> "", arn |-> NoArn]
ServerAppPool ==
    {NewAppEntry(r) : r \in {a \in RawPool : a.name = AWS_APP_NAME}}
    \cup {[id |-> "0oa5", name |-> "Legacy", identityProviderArn |-> GoodArn,
           roles |-> <<EmptyRole, [name |-> "Admin",
                                   arn |-> RoleArnSub(GoodArn, "Admin")]>>,
           appLink |-> <<"https://org.okta.com/home", "0oa5">>]}
ServerResponses == SeqsUpTo(ServerAppPool, MaxApps)

(***************************************************************************)
(* _get_user_int_selection: int(input("Selection: ")).                     *)
(***************************************************************************)
Digits == {"0", "1", "2", "3", "4", "5", "6", "7", "8", "9"}
DigitVal(c) ==
    CASE c = "0" -> 0 [] c = "1" -> 1 [] c = "2" -> 2 [] c = "3" -> 3
      [] c = "4" -> 4 [] c = "5" -> 5 [] c = "6" -> 6 [] c = "7" -> 7
      [] c = "8" -> 8 [] c = "9" -> 9

RECURSIVE DigitsVal(_)
DigitsVal(s) ==
    IF s = <<>> THEN 0
    ELSE 10 * DigitsVal(SubSeq(s, 1, Len(s)-1)) + DigitVal(s[Len(s)])

AllDigits(s) == s # <<>> /\ \A i \in 1..Len(s) : s[i] \in Digits

\* int(line) raises ValueError unless line is an optional sign and digits
IsInt(line) ==
    \/ AllDigits(line)
    \/ line # <<>> /\ line[1] \in {"-", "+"} /\ AllDigits(Tail(line))

IntOf(line) ==
    IF line[1] = "-" THEN 0 - DigitsVal(Tail(line))
    ELSE IF line[1] = "+" THEN DigitsVal(Tail(line))
    ELSE DigitsVal(line)

\* the lines the operator may type
InputLines == {<<"x">>, <<"9">>, <<"0">>, <<"1">>, <<"-", "1">>}

\* input() raises EOFError at the end of the input stream
EOF == <<"<eof>">>

\* the selection made after the lines read: the lines before the last one
\* raised ValueError; None when the last one did too, or is out of range
Selection(lines, min_int, max_int) ==
    IF lines = <<>> \/ ~IsInt(lines[Len(lines)]) THEN None
    ELSE IF IntOf(lines[Len(lines)]) < min_int
            \/ IntOf(lines[Len(lines)]) > max_int THEN None
    ELSE [value |-> IntOf(lines[Len(lines)])]

\* for i in range(0, max_retries): the loop goes on after a ValueError
\* while attempts are left
PromptsAgainOutOfRange(lines, min_int, max_int) ==
    /\ Len(lines) < max_retries
    /\ \/ ~IsInt(lines[Len(lines)])
       \/ IntOf(lines[Len(lines)]) < min_int
       \/ IntOf(lines[Len(lines)]) > max_int

PromptsAgainOneMore(lines, min_int, max_int) ==
    /\ Len(lines) < max_retries + 1
    /\ ~IsInt(lines[Len(lines)])

PromptsAgain(lines, min_int, max_int) ==
    /\ Len(lines) < max_retries
    /\ ~IsInt(lines[Len(lines)])

(***************************************************************************)
(* The credential file and configparser.RawConfigParser.                   *)
(***************************************************************************)
ACCESS_KEY == "aws_access_key_id"
SECRET_KEY == "aws_secret_access_key"
SESSION_TOKEN == "aws_session_token"
CredKeys == {ACCESS_KEY, SECRET_KEY, SESSION_TOKEN}

EmptyMap == <<>>
Put(m, k, v) == [x \in (DOMAIN m) \cup {k} |-> IF x = k THEN v ELSE m[x]]

\* a file: the options of [DEFAULT] and the options of every other section
EmptyStore == [defaults |-> EmptyMap, sections |-> EmptyMap]

\* config.read: a section header "[]" is a parsing error
ReadFails(file) == "" \in DOMAIN file.sections

has_section(config, section) == section \in DOMAIN config.sections

\* add_section raises ValueError for the default section
AddSectionFails(config, section) ==
    section = DEFAULT_SECTION \/ section \in DOMAIN config.sections

add_section(config, section) ==
    [config EXCEPT !.sections = Put(@, section, EmptyMap)]

\* RawConfigParser.set: an empty section name and "DEFAULT" name the defaults
set(config, section, option, value) ==
    IF section = "" \/ section = DEFAULT_SECTION
    THEN [config EXCEPT !.defaults = Put(@, option, value)]
    ELSE [config EXCEPT !.sections[section] = Put(@, option, value)]

\* the outcome of _write_aws_creds(profile, access_key, secret_key, token) on
\* a file: whether it raised, and the file afterwards
WriteAwsCreds(file, profile, creds) ==
    IF ReadFails(file) THEN [ok |-> FALSE, file |-> file]
    ELSE IF ~has_section(file, profile) /\ AddSectionFails(file, profile)
    THEN [ok |-> FALSE, file |-> file]
    ELSE LET c0 == IF has_section(file, profile) THEN file
                   ELSE add_section(file, profile)
             c1 == set(c0, profile, ACCESS_KEY, creds.AccessKeyId)
             c2 == set(c1, profile, SECRET_KEY, creds.SecretAccessKey)
             c3 == set(c2, profile, SESSION_TOKEN, creds.SessionToken)
         IN [ok |-> TRUE, file |-> c3]

\* what assume_role_with_saml may return
Creds(a, s, t) == [AccessKeyId |-> a, SecretAccessKey |-> s, SessionToken |-> t]
CredsPool == {Creds("AKIA1", "secret1", "token1"), Creds("AKIA2", "secret2", "token2")}

\* credential files that may be on disk when run() starts
OldCreds == Put(Put(Put(Put(EmptyMap, ACCESS_KEY, "AKIA0"), SECRET_KEY, "secret0"),
                    SESSION_TOKEN, "token0"), "region", "us-east-1")
OptionMaps == {EmptyMap, Put(EmptyMap, "region", "eu-west-1"), OldCreds}
ProfilePool == {"default", "Admin", "work"}
StorePool ==
    {[defaults |-> d, sections |-> s] :
        d \in {EmptyMap, Put(EmptyMap, "region", "eu-west-1")},
        s \in UNION {[S -> OptionMaps] : S \in SUBSET {"Admin", "work"}}}

(***************************************************************************)
(* The resolver: _get_app_by_name, _get_role_by_name, _choose_app,         *)
(* _choose_role.                                                           *)
(***************************************************************************)
\* the first app whose name is appname, None when the loop ends without one
GetAppByNameOrFirst(aws_info, appname) ==
    LET i == FirstIndex(aws_info, {app \in Range(aws_info) : app.name = appname})
    IN IF i = 0 THEN aws_info[1] ELSE aws_info[i]

GetAppByName(aws_info, appname) ==
    LET i == FirstIndex(aws_info, {app \in Range(aws_info) : app.name = appname})
    IN IF i = 0 THEN None ELSE aws_info[i]

\* role["name"] raises on an empty role object met before the match
GetRoleByNameRaises(app_info, rolename) ==
    LET i == FirstIndex(app_info.roles,
                            {role \in Range(app_info.roles) : role.name = rolename})
        j == FirstIndex(app_info.roles, {EmptyRole})
    IN j # 0 /\ (i = 0 \/ j < i)

GetRoleByName(app_info, rolename) ==
    LET i == FirstIndex(app_info.roles,
                            {role \in Range(app_info.roles) : role.name = rolename})
    IN IF i = 0 THEN None ELSE app_info.roles[i]

\* _choose_app / _choose_role return None before prompting when there is
\* nothing to list
AppStrs(aws_info) == aws_info
RoleStrs(app_info) == SelectSeq(app_info.roles, LAMBDA role : role # EmptyRole)

(***************************************************************************)
(* Messages and output lines.                                              *)
(***************************************************************************)
MsgNoOrgUrl == "No Okta organization URL in configuration."
MsgNoServer == "No Gimme-Creds server URL in configuration."
MsgNoApiKey == "OKTA_API_KEY environment variable not found!"
MsgNoClientId == "No OAuth Client ID in configuration."
MsgNoAuthServer == "No OAuth Authorization server in configuration."
MsgOktaError == "Error: ..."
MsgNoAccounts == "No AWS accounts found."
MsgAppNotFound == "AWS app not found for this user."
MsgNoRoles == "No roles available to this user."
MsgNotInt == "Invalid selection, must be an integer value."
MsgInvalidSelection == "You made an invalid selection"

ExportLines(creds) ==
    << <<"export AWS_ACCESS_KEY_ID=", creds.AccessKeyId>>,
       <<"export AWS_SECRET_ACCESS_KEY=", creds.SecretAccessKey>>,
       <<"export AWS_SESSION_TOKEN=", creds.SessionToken>> >>

\* exit() without an argument ends the process with status 0
EXIT_NO_ARG == 0
\* an uncaught exception ends the process with status 1
EXIT_UNCAUGHT == 1

(***************************************************************************)
(* run().                                                                  *)
(***************************************************************************)
Exit(status, msgs) ==
    /\ pc' = "exited"
    /\ exitStatus' = status
    /\ stdout' = stdout \o msgs

Goto(label, msgs) ==
    /\ pc' = label
    /\ exitStatus' = exitStatus
    /\ stdout' = stdout \o msgs

Read(key, value) == conf' = [conf EXCEPT ![key] = value]

RunStorePool ==
    {EmptyStore,
     [defaults |-> Put(EmptyMap, "region", "eu-west-1"),
      sections |-> Put(Put(EmptyMap, "Admin", OldCreds), "work", EmptyMap)]}

Init ==
    /\ pc = "start"
    /\ exitStatus = Running
    /\ conf = [k \in ConfKeys |-> Unread]
    /\ calls = <<>>
    /\ final_result = <<>>
    /\ aws_results = <<>>
    /\ aws_app = None
    /\ aws_role = None
    /\ idp_arn = NoArn
    /\ role_arn = NoArn
    /\ stdin = <<>>
    /\ prompted = {}
    /\ stsCalls = <<>>
    /\ aws_creds = None
    /\ store \in RunStorePool
    /\ written = <<>>
    /\ stderr = <<>>
    /\ stdout = <<>>

\* lines 280-285: --configure updates the configuration file and exits
Configure ==
    /\ pc = "start"
    /\ Read("configure", "True")
    /\ Exit(EXIT_NO_ARG, <<>>)
    /\ UNCHANGED <<calls, final_result, aws_results, aws_app, aws_role,
                   idp_arn, role_arn, stdin, prompted, stsCalls, aws_creds,
                   store, written, stderr>>

\* lines 316-319: a missing client_id or okta_auth_server is printed
BrokerConfigMsgs(client_id, auth_server) ==
    (IF Falsy(client_id) THEN <<MsgNoClientId>> ELSE <<>>)
    \o (IF Falsy(auth_server) THEN <<MsgNoAuthServer>> ELSE <<>>)

\* conf_dict['client_id'] and conf_dict['okta_auth_server'] in the call of
\* okta.auth_oauth raise KeyError for an absent key; an empty value is passed on
BrokerConfigAborts(client_id, auth_server) ==
    KeyError(client_id) \/ KeyError(auth_server)

\* lines 280-319: the configuration is read and checked
LoadConfig ==
    /\ pc = "start"
    /\ \E url \in OrgUrls :
         IF Falsy(url)
         THEN /\ conf' = [conf EXCEPT !.configure = "False", !.okta_org_url = url]
              /\ Exit(1, <<MsgNoOrgUrl>>)
         ELSE \E srv \in Servers :
           IF Falsy(srv)
           THEN /\ conf' = [conf EXCEPT !.configure = "False",
                                        !.okta_org_url = url,
                                        !.gimme_creds_server = srv]
                /\ Exit(1, <<MsgNoServer>>)
           ELSE IF srv = "internal"
           THEN \E key \in ApiKeys :
                  /\ conf' = [conf EXCEPT !.configure = "False",
                                          !.okta_org_url = url,
                                          !.gimme_creds_server = srv,
                                          !.api_key = key]
                  /\ IF key = Absent
                     THEN Exit(1, <<MsgNoApiKey>>)
                     ELSE Goto("auth_session", <<>>)
           ELSE \E cid \in ClientIds, asrv \in AuthServers :
                  /\ conf' = [conf EXCEPT !.configure = "False",
                                          !.okta_org_url = url,
                                          !.gimme_creds_server = srv,
                                          !.client_id = cid,
                                          !.okta_auth_server = asrv]
                  /\ IF BrokerConfigAborts(cid, asrv)
                     THEN Exit(EXIT_UNCAUGHT, BrokerConfigMsgs(cid, asrv))
                     ELSE Goto("auth_oauth", BrokerConfigMsgs(cid, asrv))
    /\ UNCHANGED <<calls, final_result, aws_results, aws_app, aws_role,
                   idp_arn, role_arn, stdin, prompted, stsCalls, aws_creds,
                   store, written, stderr>>

\* line 309: okta.auth_session()
AuthSession ==
    /\ pc = "auth_session"
    /\ \E ok \in BOOLEAN :
         IF ok THEN /\ calls' = Append(calls, "auth_session")
                    /\ Goto("get_aws_account_info", <<>>)
         ELSE /\ calls' = calls \o <<"auth_session", Raised>>
              /\ Exit(EXIT_UNCAUGHT, <<>>)
    /\ UNCHANGED <<conf, final_result, aws_results, aws_app, aws_role,
                   idp_arn, role_arn, stdin, prompted, stsCalls, aws_creds,
                   store, written, stderr>>

\* lines 312, 110-186: _get_aws_account_info
GetAwsAccountInfo ==
    /\ pc = "get_aws_account_info"
    /\ \/ /\ calls' = calls \o <<"users_api", Raised>>
          /\ Exit(1, <<MsgOktaError>>)
          /\ UNCHANGED <<final_result, aws_results>>
       \/ /\ calls' = calls \o <<"users_api", "apps_api", Raised>>
          /\ Exit(1, <<MsgOktaError>>)
          /\ UNCHANGED <<final_result, aws_results>>
       \/ \E pages \in PageChains :
            /\ calls' = calls \o <<"users_api", "apps_api">>
            /\ final_result' = Concat(pages)
            /\ IF BuildAppList(Concat(pages)) = <<>>
               THEN /\ Exit(EXIT_NO_ARG, <<MsgNoAccounts>>)
                    /\ UNCHANGED aws_results
               ELSE /\ aws_results' = BuildAppList(Concat(pages))
                    /\ Goto("resolve_app", <<>>)
    /\ UNCHANGED <<conf, aws_app, aws_role, idp_arn, role_arn, stdin,
                   prompted, stsCalls, aws_creds, store, written, stderr>>

\* lines 322-331: okta.auth_oauth(...)
AuthOauth ==
    /\ pc = "auth_oauth"
    /\ \E ok \in BOOLEAN :
         IF ok THEN /\ calls' = Append(calls, "auth_oauth")
                    /\ Goto("call_gimme_creds_server", <<>>)
         ELSE /\ calls' = calls \o <<"auth_oauth", Raised>>
              /\ Exit(EXIT_UNCAUGHT, <<>>)
    /\ UNCHANGED <<conf, final_result, aws_results, aws_app, aws_role,
                   idp_arn, role_arn, stdin, prompted, stsCalls, aws_creds,
                   store, written, stderr>>

\* lines 334, 98-107: _call_gimme_creds_server
CallGimmeCredsServer ==
    /\ pc = "call_gimme_creds_server"
    /\ \/ /\ calls' = calls \o <<"gimme_creds_server", Raised>>
          /\ Exit(EXIT_UNCAUGHT, <<>>)
          /\ UNCHANGED aws_results
       \/ \E response \in ServerResponses :
            /\ calls' = Append(calls, "gimme_creds_server")
            /\ IF response = <<>>
               THEN /\ Exit(EXIT_NO_ARG, <<MsgNoAccounts>>)
                    /\ UNCHANGED aws_results
               ELSE /\ aws_results' = response
                    /\ Goto("resolve_app", <<>>)
    /\ UNCHANGED <<conf, final_result, aws_app, aws_role, idp_arn, role_arn,
                   stdin, prompted, stsCalls, aws_creds, store, written,
                   stderr>>

\* lines 359-362
SetArns(app, role) ==
    /\ idp_arn' = app.identityProviderArn
    /\ role_arn' = role.arn

\* lines 338-346, 188-206, 216-221: the application is looked up by its
\* pinned name, or listed for the operator
ResolveApp ==
    /\ pc = "resolve_app"
    /\ \E appname \in AppNames :
         /\ Read("aws_appname", appname)
         /\ IF Falsy(appname)
            THEN IF AppStrs(aws_results) = <<>>
                 THEN /\ Exit(1, <<MsgAppNotFound>>)
                      /\ UNCHANGED <<aws_app, stdin>>
                 ELSE /\ Goto("choose_app", <<>>)
                      /\ stdin' = <<>>
                      /\ UNCHANGED aws_app
            ELSE IF GetAppByName(aws_results, appname) = None
                 THEN /\ Exit(1, <<MsgAppNotFound>>)
                      /\ UNCHANGED <<aws_app, stdin>>
                 ELSE /\ aws_app' = GetAppByName(aws_results, appname)
                      /\ Goto("resolve_role", <<>>)
                      /\ UNCHANGED stdin
    /\ UNCHANGED <<calls, final_result, aws_results, aws_role, idp_arn,
                   role_arn, prompted, stsCalls, aws_creds, store, written,
                   stderr>>

\* the messages _get_user_int_selection and its caller print when the
\* selection ends in None
InvalidMsgs(lines) ==
    (IF IsInt(lines[Len(lines)]) THEN <<>> ELSE <<MsgNotInt>>)
    \o <<MsgInvalidSelection>>

\* lines 208-214, 259-276: one input() of the application selection
AppInput ==
    /\ pc = "choose_app"
    /\ prompted' = prompted \cup {"app"}
    /\ \/ /\ stdin' = Append(stdin, EOF)
          /\ Exit(EXIT_UNCAUGHT, <<>>)
          /\ UNCHANGED aws_app
       \/ \E line \in InputLines :
            LET lines == Append(stdin, line)
                max_int == Len(aws_results) - 1
            IN /\ stdin' = lines
               /\ IF PromptsAgain(lines, 0, max_int)
                  THEN /\ Goto("choose_app", <<MsgNotInt>>)
                       /\ UNCHANGED aws_app
                  ELSE IF Selection(lines, 0, max_int) = None
                  THEN /\ Exit(1, InvalidMsgs(lines))
                       /\ UNCHANGED aws_app
                  ELSE /\ aws_app' = aws_results[Selection(lines, 0, max_int).value + 1]
                       /\ Goto("resolve_role", <<>>)
    /\ UNCHANGED <<conf, calls, final_result, aws_results, aws_role, idp_arn,
                   role_arn, stsCalls, aws_creds, store, written, stderr>>

\* lines 348-362, 223-249: the role is looked up by its pinned name, or the
\* roles are listed for the operator
ResolveRole ==
    /\ pc = "resolve_role"
    /\ \E rolename \in RoleNames :
         /\ Read("aws_rolename", rolename)
         /\ IF Falsy(rolename)
            THEN IF RoleStrs(aws_app) = <<>>
                 THEN /\ Exit(1, <<MsgNoRoles>>)
                      /\ UNCHANGED <<aws_role, idp_arn, role_arn, stdin>>
                 ELSE /\ Goto("choose_role", <<>>)
                      /\ stdin' = <<>>
                      /\ UNCHANGED <<aws_role, idp_arn, role_arn>>
            ELSE IF GetRoleByNameRaises(aws_app, rolename)
                 THEN /\ Exit(EXIT_UNCAUGHT, <<>>)
                      /\ UNCHANGED <<aws_role, idp_arn, role_arn, stdin>>
            ELSE IF GetRoleByName(aws_app, rolename) = None
                 THEN /\ Exit(1, <<MsgNoRoles>>)
                      /\ UNCHANGED <<aws_role, idp_arn, role_arn, stdin>>
                 ELSE /\ aws_role' = GetRoleByName(aws_app, rolename)
                      /\ SetArns(aws_app, GetRoleByName(aws_app, rolename))
                      /\ Goto("get_saml_response", <<>>)
                      /\ UNCHANGED stdin
    /\ UNCHANGED <<calls, final_result, aws_results, aws_app, prompted,
                   stsCalls, aws_creds, store, written, stderr>>

\* lines 251-257, 259-276, 354-362: one input() of the role selection
RoleInput ==
    /\ pc = "choose_role"
    /\ prompted' = prompted \cup {"role"}
    /\ \/ /\ stdin' = Append(stdin, EOF)
          /\ Exit(EXIT_UNCAUGHT, <<>>)
          /\ UNCHANGED <<aws_role, idp_arn, role_arn>>
       \/ \E line \in InputLines :
            LET lines == Append(stdin, line)
                max_int == Len(aws_app.roles) - 1
                selection == Selection(lines, 0, max_int)
            IN /\ stdin' = lines
               /\ IF PromptsAgain(lines, 0, max_int)
                  THEN /\ Goto("choose_role", <<MsgNotInt>>)
                       /\ UNCHANGED <<aws_role, idp_arn, role_arn>>
                  ELSE IF selection = None
                  THEN /\ Exit(1, InvalidMsgs(lines))
                       /\ UNCHANGED <<aws_role, idp_arn, role_arn>>
                  ELSE IF aws_app.roles[selection.value + 1] = EmptyRole
                  THEN /\ aws_role' = aws_app.roles[selection.value + 1]
                       /\ Exit(1, <<MsgNoRoles>>)
                       /\ UNCHANGED <<idp_arn, role_arn>>
                  ELSE /\ aws_role' = aws_app.roles[selection.value + 1]
                       /\ SetArns(aws_app, aws_app.roles[selection.value + 1])
                       /\ Goto("get_saml_response", <<>>)
    /\ UNCHANGED <<conf, calls, final_result, aws_results, aws_app, stsCalls,
                   aws_creds, store, written, stderr>>

\* line 364: okta.get_saml_response(aws_app['links']['appLink'])
GetSamlResponse ==
    /\ pc = "get_saml_response"
    /\ \E ok \in BOOLEAN :
         IF ok THEN /\ calls' = Append(calls, "get_saml_response")
                    /\ Goto("get_sts_creds", <<>>)
         ELSE /\ calls' = calls \o <<"get_saml_response", Raised>>
              /\ Exit(EXIT_UNCAUGHT, <<>>)
    /\ UNCHANGED <<conf, final_result, aws_results, aws_app, aws_role,
                   idp_arn, role_arn, stdin, prompted, stsCalls, aws_creds,
                   store, written, stderr>>

\* lines 365, 84-95: _get_sts_creds
DURATION == 3600
GetStsCreds ==
    /\ pc = "get_sts_creds"
    /\ stsCalls' = Append(stsCalls, [RoleArn |-> role_arn,
                                     PrincipalArn |-> idp_arn,
                                     DurationSeconds |-> DURATION])
    /\ \/ /\ Exit(EXIT_UNCAUGHT, <<>>)
          /\ UNCHANGED aws_creds
       \/ \E creds \in CredsPool :
            /\ aws_creds' = creds
            /\ Goto("deliver", <<>>)
    /\ UNCHANGED <<conf, calls, final_result, aws_results, aws_app, aws_role,
                   idp_arn, role_arn, stdin, prompted, store, written, stderr>>

\* lines 369 and 386: the branch of the delivery
Persists(write_aws_creds) == write_aws_creds = "True"

EmitsAlways(write_aws_creds) == TRUE

Emits(write_aws_creds) == ~(write_aws_creds = "True")

\* lines 372-377: the profile name
ProfileName(cred_profile, aws_rolename) ==
    IF Lower(cred_profile) = "default" THEN "default"
    ELSE IF Lower(cred_profile) = "role" THEN aws_rolename
    ELSE cred_profile

Done ==
    /\ pc' = "done"
    /\ exitStatus' = 0
    /\ stdout' = stdout

\* lines 369-393: the credentials are written to the file or printed to
\* sys.stderr, and config.clean_up() ends the run.  cred_profile is read and
\* the file is opened in the persist branch only: the emit branch is taken
\* once, whatever they are (first conjunct).
Deliver ==
    /\ pc = "deliver"
    /\ \E flag \in WriteFlags, cred_profile \in CredProfiles, io \in BOOLEAN :
         LET profile == ProfileName(cred_profile, conf.aws_rolename)
             result == IF io THEN WriteAwsCreds(store, profile, aws_creds)
                       ELSE [ok |-> FALSE, file |-> store]
         IN /\ ~Persists(flag) => (cred_profile = "DEFAULT" /\ io)
            /\ conf' = [conf EXCEPT !.write_aws_creds = flag,
                                    !.cred_profile =
                                        IF Persists(flag) THEN cred_profile ELSE @]
            /\ IF Persists(flag) /\ KeyError(profile)
               THEN /\ Exit(EXIT_UNCAUGHT, <<>>)
                    /\ UNCHANGED <<store, written, stderr>>
               ELSE IF Persists(flag) /\ ~result.ok
               THEN /\ written' = Append(written, [profile |-> profile,
                                                   creds |-> aws_creds,
                                                   ok |-> FALSE])
                    /\ Exit(EXIT_UNCAUGHT, <<>>)
                    /\ UNCHANGED <<store, stderr>>
               ELSE /\ written' = IF Persists(flag)
                                  THEN Append(written, [profile |-> profile,
                                                        creds |-> aws_creds,
                                                        ok |-> TRUE])
                                  ELSE written
                    /\ store' = IF Persists(flag) THEN result.file ELSE store
                    /\ stderr' = IF Emits(flag)
                                 THEN stderr \o ExportLines(aws_creds)
                                 ELSE stderr
                    /\ Done
    /\ UNCHANGED <<calls, final_result, aws_results, aws_app, aws_role,
                   idp_arn, role_arn, stdin, prompted, stsCalls, aws_creds>>

Next ==
    \/ Configure
    \/ LoadConfig
    \/ AuthSession
    \/ GetAwsAccountInfo
    \/ AuthOauth
    \/ CallGimmeCredsServer
    \/ ResolveApp
    \/ AppInput
    \/ ResolveRole
    \/ RoleInput
    \/ GetSamlResponse
    \/ GetStsCreds
    \/ Deliver

Spec == Init /\ [][Next]_vars

(***************************************************************************)
(* _write_aws_creds on its own: repeated calls on a credential file.       *)
(***************************************************************************)
WriteProfiles == ProfilePool \cup {"", DEFAULT_SECTION}

InitWrite ==
    /\ pc = "write_aws_creds"
    /\ exitStatus = Running
    /\ conf = [k \in ConfKeys |-> Unread]
    /\ calls = <<>>
    /\ final_result = <<>>
    /\ aws_results = <<>>
    /\ aws_app = None
    /\ aws_role = None
    /\ idp_arn = NoArn
    /\ role_arn = NoArn
    /\ stdin = <<>>
    /\ prompted = {}
    /\ stsCalls = <<>>
    /\ aws_creds = None
    /\ store \in StorePool
    /\ written = <<>>
    /\ stderr = <<>>
    /\ stdout = <<>>

\* lines 59-82: one call of _write_aws_creds
CallWriteAwsCreds ==
    /\ pc = "write_aws_creds"
    /\ Len(written) < MaxWrites
    /\ \E profile \in WriteProfiles, creds \in CredsPool :
         LET result == WriteAwsCreds(store, profile, creds)
         IN /\ written' = Append(written, [profile |-> profile,
                                           creds |-> creds,
                                           ok |-> result.ok])
            /\ store' = result.file
    /\ UNCHANGED <<pc, exitStatus, conf, calls, final_result, aws_results,
                   aws_app, aws_role, idp_arn, role_arn, stdin, prompted,
                   stsCalls, aws_creds, stderr, stdout>>

NextWrite == CallWriteAwsCreds

SpecWrite == InitWrite /\ [][NextWrite]_vars

(***************************************************************************)
(* Properties.                                                             *)
(***************************************************************************)
WrittenOk == {i \in 1..Len(written) : written[i].ok}
Direct == "auth_session" \in Range(calls)

\* C1: a run delivers the credential triple to exactly one destination, the
\* credential file or three export lines on stderr and never both; a run
\* that does not complete writes nothing to the file and prints no export
\* line.
C1Delivery ==
    /\ WrittenOk = {} \/ stderr = <<>>
    /\ pc = "done" =>
         \/ /\ Len(written) = 1
            /\ written[1].ok
            /\ written[1].creds = aws_creds
            /\ stderr = <<>>
         \/ /\ written = <<>>
            /\ stderr = ExportLines(aws_creds)
    /\ pc # "done" => WrittenOk = {} /\ stderr = <<>>

T_C1 ==
    /\ []C1Delivery
    /\ [][store' # store => pc' = "done" /\ WrittenOk' # {}]_vars

W_C1 == pc = "done" /\ Len(written) = 1 /\ written[1].ok /\ stderr = <<>>

\* C2: a pinned application or role name that no candidate carries ends the
\* run with exit status 1, with no prompt for that selection, with idp_arn
\* and role_arn unset, and with no assertion, exchange or delivery.
AppPinMissing ==
    /\ conf.aws_appname \notin {Unread, Absent, ""}
    /\ \A i \in 1..Len(aws_results) : aws_results[i].name # conf.aws_appname

RolePinMissing ==
    /\ conf.aws_rolename \notin {Unread, Absent, ""}
    /\ aws_app # None
    /\ \A i \in 1..Len(aws_app.roles) : aws_app.roles[i].name # conf.aws_rolename

NothingAfterResolution ==
    /\ aws_role = None
    /\ idp_arn = NoArn
    /\ role_arn = NoArn
    /\ "get_saml_response" \notin Range(calls)
    /\ stsCalls = <<>>
    /\ written = <<>>
    /\ stderr = <<>>

T_C2 ==
    /\ AppPinMissing =>
         /\ pc = "exited" /\ exitStatus = 1
         /\ "app" \notin prompted
         /\ aws_app = None
         /\ NothingAfterResolution
    /\ RolePinMissing =>
         /\ pc = "exited" /\ exitStatus = 1
         /\ "role" \notin prompted
         /\ NothingAfterResolution

W_C2 == AppPinMissing /\ exitStatus = 1 /\ MsgAppNotFound \in Range(stdout)

\* C3: what the operator typed for the application selection, while stdin
\* still holds it.
StdinOfApp == "app" \in prompted /\ "role" \notin prompted /\ stdin # <<>>

\* C3 as claimed: with a 2-entry catalog and the inputs "x", "9", "0" the
\* selection prompts again after "x" and after "9" and then returns entry 0.
CE_C3 ==
    (StdinOfApp /\ Len(aws_results) = 2) =>
        /\ stdin = << <<"x">> >> => pc = "choose_app"
        /\ stdin = << <<"x">>, <<"9">> >> => pc = "choose_app"
        /\ stdin = << <<"x">>, <<"9">>, <<"0">> >> => aws_app = aws_results[1]

\* C3 as amended: a non-integer input within the retry budget leads to a
\* further prompt, an out-of-range integer ends the selection and the run
\* with exit status 1: with a 2-entry catalog, "x", "9" prompts again once
\* and ends at "9", and "x", "0" prompts again once and returns entry 0.
T_C3 ==
    StdinOfApp =>
        /\ (Last(stdin) = <<"x">> /\ Len(stdin) < max_retries) =>
               pc = "choose_app" /\ exitStatus = Running
        /\ Last(stdin) \in {<<"9">>, <<"-", "1">>} =>
               pc = "exited" /\ exitStatus = 1 /\ aws_app = None
        /\ (Len(aws_results) = 2 /\ stdin = << <<"x">>, <<"9">> >>) =>
               /\ pc = "exited" /\ exitStatus = 1
               /\ MsgNotInt \in Range(stdout)
               /\ Last(stdout) = MsgInvalidSelection
        /\ (Len(aws_results) = 2 /\ stdin = << <<"x">>, <<"0">> >>) =>
               /\ aws_app = aws_results[1]
               /\ pc # "choose_app"
               /\ MsgNotInt \in Range(stdout)

W_C3 ==
    /\ StdinOfApp /\ Len(aws_results) = 2
    /\ stdin = << <<"x">>, <<"9">> >>
    /\ exitStatus = 1

\* C4: an empty catalog, on the direct path and on the broker path, prints
\* the no-accounts message and ends the process with exit status 1; exit
\* status 0 is that of a complete run or of configure-and-exit only.
EmptyCatalog ==
    /\ calls # <<>>
    /\ Last(calls) \in {"apps_api", "gimme_creds_server"}
    /\ aws_results = <<>>

CE_C4 ==
    /\ EmptyCatalog => MsgNoAccounts \in Range(stdout) /\ exitStatus = 1
    /\ exitStatus = 0 => pc = "done" \/ conf.configure = "True"

\* C5: in persist mode with cred_profile "role" in any letter case, the
\* section that receives the credentials is named as the resolved role is.
CE_C5 ==
    \A i \in WrittenOk :
        Lower(conf.cred_profile) = "role" =>
            /\ aws_role # None
            /\ written[i].profile = aws_role.name

\* C6 as claimed: every entry of the list _get_aws_account_info returns has
\* a non-empty roles sequence.
CE_C6 ==
    Direct => \A i \in 1..Len(aws_results) : aws_results[i].roles # <<>>

\* C6 as amended: the list _get_aws_account_info returns holds one entry for
\* every amazon_aws record, in the order of the records, with one role for
\* every entry of samlRoles; a record with an empty samlRoles list is kept,
\* with an empty roles sequence, and resolving a role of it ends the run
\* with exit status 1 before the exchange.
AwsRecords == SelectSeq(final_result, LAMBDA app : app.name = AWS_APP_NAME)

T_C6 ==
    (Direct /\ aws_results # <<>>) =>
        /\ Len(aws_results) = Len(AwsRecords)
        /\ \A i \in 1..Len(aws_results) :
             /\ aws_results[i].name = AwsRecords[i].label
             /\ Len(aws_results[i].roles) = Len(AwsRecords[i].samlRoles)
             /\ \A j \in 1..Len(aws_results[i].roles) :
                  aws_results[i].roles[j].name = AwsRecords[i].samlRoles[j]
        /\ (aws_app # None /\ aws_app.roles = <<>> /\ conf.aws_rolename # Unread) =>
             /\ pc = "exited" /\ exitStatus = 1
             /\ stsCalls = <<>>

W_C6 ==
    /\ Direct
    /\ aws_app # None /\ aws_app.roles = <<>>
    /\ exitStatus = 1 /\ MsgNoRoles \in Range(stdout)

\* C7: a missing required configuration value ends the run with exit status
\* 1 before auth_session or auth_oauth is called.
RequiredMissing ==
    \/ Falsy(conf.okta_org_url)
    \/ Falsy(conf.gimme_creds_server)
    \/ Falsy(conf.client_id)
    \/ Falsy(conf.okta_auth_server)
    \/ conf.api_key = Absent

CE_C7 ==
    RequiredMissing =>
        /\ pc = "exited" /\ exitStatus = 1
        /\ Range(calls) \cap {"auth_session", "auth_oauth"} = {}

\* C8: a call of _write_aws_creds that returns leaves every other section
\* and every other option of the profile's section as they were, sets the
\* three credential options of the profile's section, and changes nothing
\* when it repeats the call before it.
Frame(before, after, profile, creds) ==
    /\ DOMAIN after.sections = DOMAIN before.sections \cup {profile}
    /\ after.defaults = before.defaults
    /\ \A sec \in DOMAIN before.sections \ {profile} :
         after.sections[sec] = before.sections[sec]
    /\ profile \in DOMAIN before.sections =>
         \A opt \in DOMAIN before.sections[profile] \ CredKeys :
             /\ opt \in DOMAIN after.sections[profile]
             /\ after.sections[profile][opt] = before.sections[profile][opt]
    /\ CredKeys \subseteq DOMAIN after.sections[profile]
    /\ after.sections[profile][ACCESS_KEY] = creds.AccessKeyId
    /\ after.sections[profile][SECRET_KEY] = creds.SecretAccessKey
    /\ after.sections[profile][SESSION_TOKEN] = creds.SessionToken

CE_C8 ==
    [][(Len(written') = Len(written) + 1 /\ Last(written').ok) =>
          /\ Frame(store, store', Last(written').profile, Last(written').creds)
          /\ (written # <<>> /\ Last(written) = Last(written')) => store' = store
      ]_vars

\* C9: one selection makes at most max_retries prompts and then has ended;
\* an index it yields lies between 0 and the number of candidates - 1, and
\* a selection that ends after max_retries non-integer inputs or with an
\* out-of-range integer ends the process with exit status 1.
Candidates ==
    IF "role" \in prompted THEN Len(aws_app.roles) ELSE Len(aws_results)

T_C9 ==
    /\ Len(stdin) <= max_retries
    /\ pc \in {"choose_app", "choose_role"} =>
         /\ Len(stdin) < max_retries
         /\ \A i \in 1..Len(stdin) : ~IsInt(stdin[i])
    /\ ("app" \in prompted /\ aws_app # None) =>
         \E n \in 0..(Len(aws_results) - 1) :
             /\ aws_app = aws_results[n + 1]
             /\ StdinOfApp => IsInt(Last(stdin)) /\ IntOf(Last(stdin)) = n
    /\ ("role" \in prompted /\ aws_role # None) =>
         \E n \in 0..(Len(aws_app.roles) - 1) :
             /\ aws_role = aws_app.roles[n + 1]
             /\ IsInt(Last(stdin)) /\ IntOf(Last(stdin)) = n
    /\ (prompted # {} /\ stdin # <<>>) =>
         /\ (Len(stdin) = max_retries /\ ~IsInt(Last(stdin))) =>
                pc = "exited" /\ exitStatus = 1
         /\ (IsInt(Last(stdin)) /\ IntOf(Last(stdin)) \notin 0..(Candidates - 1)) =>
                pc = "exited" /\ exitStatus = 1

W_C9 ==
    /\ "role" \in prompted
    /\ Len(stdin) = max_retries
    /\ Last(stdin) = <<"x">>
    /\ exitStatus = 1

\* C10: assume_role_with_saml is only ever called with a RoleArn of the form
\* <prefix>:role/<role name>; an identityProviderArn without ":saml-provider"
\* makes the run fail before the call.
WellFormedRoleArn(arn, role) ==
    /\ Len(arn) >= 3
    /\ arn[Len(arn) - 1] = RolePath
    /\ arn[Len(arn)] = role

CE_C10 ==
    Direct =>
        \A i \in 1..Len(stsCalls) :
            WellFormedRoleArn(stsCalls[i].RoleArn, aws_role.name)

====
